---- MODULE Spec2Model ----
(***************************************************************************)
(* A model of backend/server.py: the three handlers of the health chatbot  *)
(* API (ask_health_question, get_chat_history, get_health_stats) running   *)
(* as concurrent asyncio tasks over one MongoDB collection, health_queries.*)
(* A handler runs atomically between two awaits; every await of a          *)
(* collaborator (the completion call, a store operation) is one step that  *)
(* either succeeds or raises.  A finished handler keeps its response in    *)
(* loc[p].resp (status is the HTTP status) until the task returns.  The    *)
(* fields calls, sent, raised, now and vCount, vFind, vTotal, vRecent of   *)
(* loc[p] are history: the collaborators called, the text sent to the      *)
(* completion call, whether a store operation raised, the clock reading,   *)
(* and the number of documents in the collection at each store read.       *)
(***************************************************************************)
EXTENDS Integers, Sequences, FiniteSets, TLC

VARIABLES
    store,    \* db.health_queries: the documents, in insertion order
    clock,    \* datetime.now(timezone.utc), in ticks
    nextId,   \* the next value uuid.uuid4() yields (fresh on every call)
    pc,       \* per task: the await the handler is suspended at
    loc       \* per task: the handler's local variables and its response

vars == <<store, clock, nextId, pc, loc>>

----------------------------------------------------------------------------
(* Bounds of the model *)

\* submitQuery requests that may get as far as minting a query_id
MaxQueries == 2
\* the last tick of the wall clock
MaxClock == 2
\* ticks in one UTC day
TicksPerDay == 2
\* the largest skip a getHistory request carries
MaxSkip == 1

\* the handler tasks in flight at once: one serving the POST requests, one
\* serving the GET requests
Writers == {"w"}
Readers == {"r"}
Procs == Writers \cup Readers

----------------------------------------------------------------------------
(* Inputs *)

Whitespace == {" "}

\* user_id path parameters of getHistory ("u2" is never written)
PathUserIds == {"u1", "u2"}

\* what the completion capability may generate
Answers == {"ans"}

Limits == {1, 2}
Skips == 0..MaxSkip

\* JSON bodies of POST /health/query; a question is a sequence of
\* characters, and either field may be absent from the JSON
Bodies ==
    { [question |-> <<"a">>, user_id |-> "u1"],
      [question |-> <<" ", "a", " ">>, user_id |-> "u1"],
      [question |-> <<"a">>],
      [question |-> <<"a">>, user_id |-> ""],
      [question |-> <<>>, user_id |-> "u1"],
      [question |-> <<" ">>],
      [user_id |-> "u1"] }

----------------------------------------------------------------------------
(* Pure helpers *)

Min(a, b) == IF a < b THEN a ELSE b

RECURSIVE LStrip(_)
LStrip(s) ==
    IF s = <<>> THEN s
    ELSE IF Head(s) \in Whitespace THEN LStrip(Tail(s)) ELSE s

RECURSIVE RStrip(_)
RStrip(s) ==
    IF s = <<>> THEN s
    ELSE IF s[Len(s)] \in Whitespace THEN RStrip(SubSeq(s, 1, Len(s) - 1)) ELSE s

\* str.strip()
Strip(s) == RStrip(LStrip(s))

\* pydantic's parse of the body into HealthQuery: question is required
HealthQueryValid(body) == "question" \in DOMAIN body

\* variant: the check without the strip
QuestionEmptyNoStrip(body) == body.question = <<>>

\* the handler's own check: not query.question or not query.question.strip()
QuestionEmpty(body) == body.question = <<>> \/ Strip(body.question) = <<>>

\* the text handed to the completion capability
UserMessage(body) == Strip(body.question)

\* variant: the supplied user_id is ignored
UserIdAlwaysAnonymous(body) == "anonymous"

\* query.user_id or "anonymous"   (user_id defaults to None)
UserIdOf(body) ==
    IF "user_id" \in DOMAIN body /\ body.user_id # "" THEN body.user_id
    ELSE "anonymous"

\* the "question" value of the stored document
QuestionStored(body) == body.question

\* variant: the answer is not copied into the document
AnswerStoredEmpty(ai) == ""

\* the "answer" value of the stored document
AnswerStored(ai) == ai

\* the document built before insert_one
ChatMessageDoc(body, ai, id, now) ==
    [id |-> id, user_id |-> UserIdOf(body), question |-> QuestionStored(body),
     answer |-> AnswerStored(ai), timestamp |-> now, category |-> "general_health"]

\* variant: the replace(hour=0, ...) is left out
StartOfDayNotTruncated(now) == now

\* datetime.now(utc).replace(hour=0, minute=0, second=0, microsecond=0)
StartOfDay(now) == (now \div TicksPerDay) * TicksPerDay

----------------------------------------------------------------------------
(* The document store *)

\* variant: the count without its user_id filter
CountByUserUnfiltered(S, u) == Len(S)

\* count_documents({"user_id": user_id})
CountByUser(S, u) == Cardinality({i \in 1..Len(S) : S[i].user_id = u})

\* variant: the total counted under a user_id filter
CountAnonymous(S) == Cardinality({i \in 1..Len(S) : S[i].user_id = "anonymous"})

\* count_documents({})
CountAll(S) == Len(S)

\* distinct("user_id")
DistinctUsers(S) == {S[i].user_id : i \in 1..Len(S)}

\* count_documents({"timestamp": {"$gte": t}})
CountSince(S, t) == Cardinality({i \in 1..Len(S) : S[i].timestamp >= t})

\* variant: sort("timestamp", 1)
SortedAsc(S, I) ==
    LET n == Cardinality(I)
    IN  {f \in [1..n -> I] :
            /\ \A i, j \in 1..n : i # j => f[i] # f[j]
            /\ \A i \in 1..(n - 1) : S[f[i]].timestamp <= S[f[i + 1]].timestamp}

\* the orders sort("timestamp", -1) may produce: documents with equal
\* timestamps come in any order
SortedDesc(S, I) ==
    LET n == Cardinality(I)
    IN  {f \in [1..n -> I] :
            /\ \A i, j \in 1..n : i # j => f[i] # f[j]
            /\ \A i \in 1..(n - 1) : S[f[i]].timestamp >= S[f[i + 1]].timestamp}

\* the positions skip(skip).limit(limit) keeps of n sorted matches
Window(n, limit, skip) == (skip + 1)..Min(skip + limit, n)

PageOf(S, f, limit, skip) ==
    LET w == Window(Len(f), limit, skip)
    IN  [k \in 1..Cardinality(w) |-> S[f[skip + k]]]

\* variant: the find without its user_id filter
FindPageAnyUser(S, u, limit, skip) ==
    {PageOf(S, f, limit, skip) : f \in SortedDesc(S, 1..Len(S))}

\* find({"user_id": u}).sort("timestamp", -1).skip(skip).limit(limit)
\*     .to_list(length=limit): the set of possible results
FindPage(S, u, limit, skip) ==
    {PageOf(S, f, limit, skip) :
        f \in SortedDesc(S, {i \in 1..Len(S) : S[i].user_id = u})}

----------------------------------------------------------------------------
(* Responses *)

\* FastAPI's answer to a body pydantic rejects
RequestValidationError == [status |-> 422, detail |-> "field required"]

ValidationError == [status |-> 422, detail |-> "Question cannot be empty"]

QueryError ==
    [status |-> 500,
     detail |-> "Sorry, I encountered an error processing your health question. Please try again."]

HistoryError == [status |-> 500, detail |-> "Error fetching chat history"]

StatsError == [status |-> 500, detail |-> "Error fetching statistics"]

Idle == [kind |-> "idle"]

\* the request never reaches the completion call
Rejected(body) ==
    IF HealthQueryValid(body) THEN QuestionEmpty(body) ELSE TRUE

RejectResponse(body) ==
    IF HealthQueryValid(body) THEN ValidationError ELSE RequestValidationError

----------------------------------------------------------------------------
Init ==
    /\ store = <<>>
    /\ clock = 0
    /\ nextId = 1
    /\ pc = [p \in Procs |-> "idle"]
    /\ loc = [p \in Procs |-> Idle]

\* wall-clock time passes
Tick ==
    /\ clock < MaxClock
    /\ clock' = clock + 1
    /\ UNCHANGED <<store, nextId, pc, loc>>

InFlight == Cardinality({p \in Procs : pc[p] = "llm"})

\* POST /health/query rejected before any collaborator is called: by
\* pydantic (question missing) or by the handler's own check
SubmitInvalid(p) ==
    /\ pc[p] = "idle"
    /\ \E body \in Bodies :
        /\ Rejected(body)
        /\ loc' = [loc EXCEPT ![p] =
                [kind |-> "query", body |-> body, calls |-> {},
                 resp |-> RejectResponse(body)]]
    /\ pc' = [pc EXCEPT ![p] = "done"]
    /\ UNCHANGED <<store, clock, nextId>>

\* POST /health/query accepted: the handler awaits chat.send_message
SubmitStart(p) ==
    /\ pc[p] = "idle"
    /\ nextId + InFlight <= MaxQueries
    /\ \E body \in Bodies :
        /\ ~Rejected(body)
        /\ loc' = [loc EXCEPT ![p] =
                [kind |-> "query", body |-> body, calls |-> {"completion"},
                 sent |-> UserMessage(body)]]
    /\ pc' = [pc EXCEPT ![p] = "llm"]
    /\ UNCHANGED <<store, clock, nextId>>

\* send_message raises: except Exception -> 500
CompletionFail(p) ==
    /\ pc[p] = "llm"
    /\ loc' = [loc EXCEPT ![p] =
            [kind |-> "query", body |-> loc[p].body, calls |-> loc[p].calls,
             sent |-> loc[p].sent, resp |-> QueryError]]
    /\ pc' = [pc EXCEPT ![p] = "done"]
    /\ UNCHANGED <<store, clock, nextId>>

\* send_message returns: the handler mints query_id, builds the document
\* with timestamp now and awaits insert_one
CompletionOK(p) ==
    /\ pc[p] = "llm"
    /\ \E ai \in Answers :
        loc' = [loc EXCEPT ![p] =
            [kind |-> "query", body |-> loc[p].body,
             calls |-> loc[p].calls \cup {"insert"}, sent |-> loc[p].sent,
             ai_response |-> ai,
             chat_message |-> ChatMessageDoc(loc[p].body, ai, nextId, clock)]]
    /\ nextId' = nextId + 1
    /\ pc' = [pc EXCEPT ![p] = "insert"]
    /\ UNCHANGED <<store, clock>>

\* variant: the document is written although the insert raises
StoreAfterFailedInsertPartial(S, doc) == Append(S, doc)

\* the collection after an insert_one that raised
StoreAfterFailedInsert(S, doc) == S

\* insert_one raises: except Exception -> 500, the answer is dropped
InsertFail(p) ==
    /\ pc[p] = "insert"
    /\ store' = StoreAfterFailedInsert(store, loc[p].chat_message)
    /\ loc' = [loc EXCEPT ![p] =
            [kind |-> "query", body |-> loc[p].body, calls |-> loc[p].calls,
             sent |-> loc[p].sent, ai_response |-> loc[p].ai_response,
             chat_message |-> loc[p].chat_message, resp |-> QueryError]]
    /\ pc' = [pc EXCEPT ![p] = "done"]
    /\ UNCHANGED <<clock, nextId>>

\* insert_one returns: the handler answers with HealthResponse
InsertOK(p) ==
    /\ pc[p] = "insert"
    /\ store' = Append(store, loc[p].chat_message)
    /\ loc' = [loc EXCEPT ![p] =
            [kind |-> "query", body |-> loc[p].body, calls |-> loc[p].calls,
             sent |-> loc[p].sent, ai_response |-> loc[p].ai_response,
             chat_message |-> loc[p].chat_message,
             resp |-> [status |-> 200, answer |-> loc[p].ai_response,
                       query_id |-> loc[p].chat_message.id,
                       timestamp |-> clock]]]
    /\ pc' = [pc EXCEPT ![p] = "done"]
    /\ UNCHANGED <<clock, nextId>>

----------------------------------------------------------------------------
(* GET /health/history/{user_id} *)

\* ChatMessage(id=msg["id"], ..., category=msg.get("category", ...))
ToChatMessage(msg) ==
    [id |-> msg.id, user_id |-> msg.user_id, question |-> msg.question,
     answer |-> msg.answer, timestamp |-> msg.timestamp,
     category |-> msg.category]

\* the request arrives and count_documents returns; the handler awaits find
HistoryCount(p) ==
    /\ pc[p] = "idle"
    /\ \E u \in PathUserIds, limit \in Limits, skip \in Skips :
        loc' = [loc EXCEPT ![p] =
            [kind |-> "history", user_id |-> u, limit |-> limit, skip |-> skip,
             total |-> CountByUser(store, u), vCount |-> Len(store)]]
    /\ pc' = [pc EXCEPT ![p] = "find"]
    /\ UNCHANGED <<store, clock, nextId>>

\* the request arrives and count_documents raises: except Exception -> 500
HistoryCountFail(p) ==
    /\ pc[p] = "idle"
    /\ \E u \in PathUserIds, limit \in Limits, skip \in Skips :
        loc' = [loc EXCEPT ![p] =
            [kind |-> "history", user_id |-> u, limit |-> limit, skip |-> skip,
             raised |-> TRUE, resp |-> HistoryError]]
    /\ pc' = [pc EXCEPT ![p] = "done"]
    /\ UNCHANGED <<store, clock, nextId>>

\* to_list returns: the handler answers with ChatHistoryResponse
HistoryFind(p) ==
    /\ pc[p] = "find"
    /\ \E page \in FindPage(store, loc[p].user_id, loc[p].limit, loc[p].skip) :
        loc' = [loc EXCEPT ![p] =
            [kind |-> "history", user_id |-> loc[p].user_id,
             limit |-> loc[p].limit, skip |-> loc[p].skip,
             vCount |-> loc[p].vCount, vFind |-> Len(store), raised |-> FALSE,
             resp |-> [status |-> 200,
                       messages |-> [k \in DOMAIN page |-> ToChatMessage(page[k])],
                       total |-> loc[p].total]]]
    /\ pc' = [pc EXCEPT ![p] = "done"]
    /\ UNCHANGED <<store, clock, nextId>>

\* to_list raises: except Exception -> 500
HistoryFindFail(p) ==
    /\ pc[p] = "find"
    /\ loc' = [loc EXCEPT ![p] =
            [kind |-> "history", user_id |-> loc[p].user_id,
             limit |-> loc[p].limit, skip |-> loc[p].skip,
             raised |-> TRUE, resp |-> HistoryError]]
    /\ pc' = [pc EXCEPT ![p] = "done"]
    /\ UNCHANGED <<store, clock, nextId>>

----------------------------------------------------------------------------
(* GET /health/stats *)

\* the request arrives and count_documents({}) returns
StatsCountAll(p) ==
    /\ pc[p] = "idle"
    /\ loc' = [loc EXCEPT ![p] =
            [kind |-> "stats", total_queries |-> CountAll(store),
             vTotal |-> Len(store)]]
    /\ pc' = [pc EXCEPT ![p] = "distinct"]
    /\ UNCHANGED <<store, clock, nextId>>

\* distinct("user_id") returns
StatsDistinct(p) ==
    /\ pc[p] = "distinct"
    /\ loc' = [loc EXCEPT ![p] =
            [kind |-> "stats", total_queries |-> loc[p].total_queries,
             vTotal |-> loc[p].vTotal,
             unique_users |-> Cardinality(DistinctUsers(store))]]
    /\ pc' = [pc EXCEPT ![p] = "yesterday"]
    /\ UNCHANGED <<store, clock, nextId>>

\* the handler resumes, reads the clock and awaits the second count
StatsYesterday(p) ==
    /\ pc[p] = "yesterday"
    /\ loc' = [loc EXCEPT ![p] =
            [kind |-> "stats", total_queries |-> loc[p].total_queries,
             vTotal |-> loc[p].vTotal, unique_users |-> loc[p].unique_users,
             now |-> clock, yesterday |-> StartOfDay(clock)]]
    /\ pc' = [pc EXCEPT ![p] = "recent"]
    /\ UNCHANGED <<store, clock, nextId>>

\* count_documents({"timestamp": {"$gte": yesterday}}) returns: the handler
\* answers (status_text is the "status" key of the JSON)
StatsRecent(p) ==
    /\ pc[p] = "recent"
    /\ loc' = [loc EXCEPT ![p] =
            [kind |-> "stats", vTotal |-> loc[p].vTotal, vRecent |-> Len(store),
             now |-> loc[p].now, yesterday |-> loc[p].yesterday,
             resp |-> [status |-> 200,
                       total_queries |-> loc[p].total_queries,
                       unique_users |-> loc[p].unique_users,
                       recent_queries_24h |-> CountSince(store, loc[p].yesterday),
                       status_text |-> "active"]]]
    /\ pc' = [pc EXCEPT ![p] = "done"]
    /\ UNCHANGED <<store, clock, nextId>>

\* one of the three store operations raises: except Exception -> 500
StatsFail(p) ==
    /\ pc[p] \in {"idle", "distinct", "recent"}
    /\ loc' = [loc EXCEPT ![p] = [kind |-> "stats", resp |-> StatsError]]
    /\ pc' = [pc EXCEPT ![p] = "done"]
    /\ UNCHANGED <<store, clock, nextId>>

----------------------------------------------------------------------------
\* the response has been sent; the task ends
Return(p) ==
    /\ pc[p] = "done"
    /\ pc' = [pc EXCEPT ![p] = "idle"]
    /\ loc' = [loc EXCEPT ![p] = Idle]
    /\ UNCHANGED <<store, clock, nextId>>

Next ==
    \/ Tick
    \/ \E p \in Writers :
        \/ SubmitInvalid(p)
        \/ SubmitStart(p)
        \/ CompletionFail(p)
        \/ CompletionOK(p)
        \/ InsertFail(p)
        \/ InsertOK(p)
    \/ \E p \in Readers :
        \/ HistoryCount(p)
        \/ HistoryCountFail(p)
        \/ HistoryFind(p)
        \/ HistoryFindFail(p)
        \/ StatsCountAll(p)
        \/ StatsDistinct(p)
        \/ StatsYesterday(p)
        \/ StatsRecent(p)
        \/ StatsFail(p)
    \/ \E p \in Procs : Return(p)

Spec == Init /\ [][Next]_vars

----------------------------------------------------------------------------
(* Properties *)

Done(p, k) == pc[p] = "done" /\ loc[p].kind = k

Succeeded(p) == loc[p].resp.status = 200

\* the body carries no question, or one made of whitespace only
BlankQuestion(body) ==
    IF "question" \in DOMAIN body
    THEN \A i \in 1..Len(body.question) : body.question[i] \in Whitespace
    ELSE TRUE

StoreIds == {store[i].id : i \in 1..Len(store)}

\* the positions of user u's documents among the first v documents
UserDocs(v, u) == {i \in 1..v : store[i].user_id = u}

DistinctTimestamps(I) ==
    \A i, j \in I : i # j => store[i].timestamp # store[j].timestamp

\* how many of the documents I are newer than document i
Rank(I, i) == Cardinality({j \in I : store[j].timestamp > store[i].timestamp})

DayOf(t) == t \div TicksPerDay

\* C1: a request whose question is missing, empty or whitespace-only ends
\* in a 422 without the completion capability or the store having been
\* called, and leaves the store as it was.
C1_BlankQuestionRejected ==
    [][\A p \in Writers :
        (pc[p] = "idle" /\ pc'[p] # "idle" /\ BlankQuestion(loc'[p].body))
            => /\ pc'[p] = "done"
               /\ loc'[p].resp.status = 422
               /\ loc'[p].calls = {}
               /\ store' = store]_vars

C1_Witness ==
    \E p \in Writers :
        /\ Done(p, "query")
        /\ loc[p].body = [question |-> <<" ">>]
        /\ loc[p].resp.status = 422
        /\ Len(store) = 1

\* C2: a successful submitQuery has persisted a record whose question is
\* the trimmed question, the text that was sent to the completion call.
C2_StoredQuestionTrimmed ==
    \A p \in Writers :
        (Done(p, "query") /\ Succeeded(p))
            => \E i \in 1..Len(store) :
                /\ store[i].id = loc[p].resp.query_id
                /\ store[i].question = Strip(loc[p].body.question)
                /\ store[i].question = loc[p].sent

\* C3: the store changes only by one submitQuery, whose completion call
\* succeeded, appending its one record with a fresh id as its insert
\* succeeds; every other step (a failed validation, completion or insert,
\* a read) leaves every record as it was.
C3_RecordsOnlyFromSuccess ==
    [][store' # store =>
        \E p \in Writers :
            /\ pc[p] = "insert" /\ pc'[p] = "done"
            /\ "completion" \in loc[p].calls
            /\ loc'[p].resp.status = 200
            /\ Len(store') = Len(store) + 1
            /\ SubSeq(store', 1, Len(store)) = store
            /\ store'[Len(store')].id = loc'[p].resp.query_id
            /\ store'[Len(store')].answer = loc[p].ai_response
            /\ store'[Len(store')].id \notin StoreIds]_vars

C3_Witness ==
    /\ Len(store) = 1
    /\ \E p \in Writers :
        /\ Done(p, "query")
        /\ "chat_message" \in DOMAIN loc[p]
        /\ loc[p].resp.status = 500
        /\ loc[p].chat_message.id \notin StoreIds

\* C4: with no write between its two store operations and distinct
\* timestamps among the user's n records, getHistory returns the records
\* at positions skip .. min(skip+limit, n)-1 of the user's records by
\* descending timestamp (none when skip >= n), and total = n.
C4_HistoryPage ==
    \A p \in Readers :
        (/\ Done(p, "history") /\ Succeeded(p)
         /\ loc[p].vCount = loc[p].vFind
         /\ DistinctTimestamps(UserDocs(loc[p].vFind, loc[p].user_id)))
            => LET I == UserDocs(loc[p].vFind, loc[p].user_id)
                   n == Cardinality(I)
                   m == loc[p].resp.messages
                   hi == Min(loc[p].skip + loc[p].limit, n)
               IN  /\ loc[p].resp.total = n
                   /\ Len(m) = (IF hi > loc[p].skip THEN hi - loc[p].skip ELSE 0)
                   /\ \A k \in 1..Len(m) :
                        \E i \in I :
                            /\ m[k] = store[i]
                            /\ Rank(I, i) = loc[p].skip + k - 1

C4_Witness ==
    \E p \in Readers :
        /\ Done(p, "history") /\ Succeeded(p)
        /\ loc[p].vCount = 2 /\ loc[p].vFind = 2
        /\ loc[p].limit = 1 /\ loc[p].skip = 1
        /\ Cardinality(UserDocs(2, loc[p].user_id)) = 2
        /\ DistinctTimestamps(UserDocs(2, loc[p].user_id))
        /\ Len(loc[p].resp.messages) = 1

\* C5 as stated: recent_queries_24h never exceeds total_queries in any
\* getStats response, whatever is inserted between its counts.
C5_RecentAtMostTotal ==
    \A p \in Readers :
        (Done(p, "stats") /\ Succeeded(p))
            => loc[p].resp.recent_queries_24h <= loc[p].resp.total_queries

\* C5 amended: recent_queries_24h never exceeds total_queries in a
\* getStats response when no insert lands between its first and its last
\* count.
C5_RecentAtMostTotalNoWrites ==
    \A p \in Readers :
        (Done(p, "stats") /\ Succeeded(p) /\ loc[p].vTotal = loc[p].vRecent)
            => loc[p].resp.recent_queries_24h <= loc[p].resp.total_queries

C5_Witness ==
    \E p \in Readers :
        /\ Done(p, "stats") /\ Succeeded(p)
        /\ loc[p].vTotal = loc[p].vRecent
        /\ loc[p].resp.recent_queries_24h = 1
        /\ loc[p].resp.total_queries = 2

\* C6: when the completion call succeeded, the caller gets the answer
\* exactly when the record is in the store: a success response names a
\* stored record with that id and that answer, and a failed insert gives
\* the generic 500 message without the answer.
C6_AnswerOnlyIfStored ==
    \A p \in Writers :
        /\ (Done(p, "query") /\ Succeeded(p))
            => /\ "chat_message" \in DOMAIN loc[p]
               /\ loc[p].resp.answer = loc[p].ai_response
               /\ \E i \in 1..Len(store) :
                    /\ store[i].id = loc[p].resp.query_id
                    /\ store[i].answer = loc[p].resp.answer
        /\ (Done(p, "query") /\ "chat_message" \in DOMAIN loc[p]
                /\ loc[p].chat_message.id \notin StoreIds)
            => /\ loc[p].resp = QueryError
               /\ "answer" \notin DOMAIN loc[p].resp

C6_Witness ==
    \E p \in Writers :
        /\ Done(p, "query")
        /\ "ai_response" \in DOMAIN loc[p]
        /\ loc[p].chat_message.id \notin StoreIds
        /\ loc[p].resp.status = 500

\* no document has been inserted since reader p's request began
NoWritesSince(p) ==
    IF loc[p].kind = "history"
    THEN loc[p].vCount = Len(store) /\ loc[p].vFind = Len(store)
    ELSE loc[p].vTotal = Len(store) /\ loc[p].vRecent = Len(store)

\* C7 as stated: with no write since a getHistory or getStats call began,
\* the same call made again now, at whatever time, returns the response
\* the first call returned.
C7_ReadsRepeatable ==
    \A p \in Readers :
        (pc[p] = "done" /\ Succeeded(p) /\ NoWritesSince(p))
            => IF loc[p].kind = "history"
               THEN /\ loc[p].resp.total = CountByUser(store, loc[p].user_id)
                    /\ \A page \in FindPage(store, loc[p].user_id,
                                            loc[p].limit, loc[p].skip) :
                        loc[p].resp.messages
                            = [k \in DOMAIN page |-> ToChatMessage(page[k])]
               ELSE /\ loc[p].resp.total_queries = CountAll(store)
                    /\ loc[p].resp.unique_users
                            = Cardinality(DistinctUsers(store))
                    /\ loc[p].resp.recent_queries_24h
                            = CountSince(store, StartOfDay(clock))

\* C7 amended: with no write since the call began, a repeated getHistory
\* returns the same total, and the same messages when the user's records
\* have distinct timestamps; a repeated getStats returns the same
\* total_queries and unique_users, and the same recent_queries_24h when it
\* is made in the UTC day of the first call.
C7_ReadsRepeatableSameDay ==
    \A p \in Readers :
        (pc[p] = "done" /\ Succeeded(p) /\ NoWritesSince(p))
            => IF loc[p].kind = "history"
               THEN /\ loc[p].resp.total = CountByUser(store, loc[p].user_id)
                    /\ DistinctTimestamps(UserDocs(Len(store), loc[p].user_id))
                        => \A page \in FindPage(store, loc[p].user_id,
                                                loc[p].limit, loc[p].skip) :
                            loc[p].resp.messages
                                = [k \in DOMAIN page |-> ToChatMessage(page[k])]
               ELSE /\ loc[p].resp.total_queries = CountAll(store)
                    /\ loc[p].resp.unique_users
                            = Cardinality(DistinctUsers(store))
                    /\ DayOf(loc[p].now) = DayOf(clock)
                        => loc[p].resp.recent_queries_24h
                                = CountSince(store, StartOfDay(clock))

C7_Witness ==
    \E p \in Readers :
        /\ Done(p, "stats") /\ Succeeded(p) /\ NoWritesSince(p)
        /\ loc[p].resp.recent_queries_24h = 1
        /\ clock > loc[p].now
        /\ DayOf(loc[p].now) = DayOf(clock)

\* C8: getHistory for a user with no stored record answers 200 with
\* messages = [] and total = 0 unless a store operation raised.
C8_EmptyHistory ==
    \A p \in Readers :
        (/\ Done(p, "history")
         /\ UserDocs(Len(store), loc[p].user_id) = {}
         /\ ~loc[p].raised)
            => loc[p].resp = [status |-> 200, messages |-> <<>>, total |-> 0]

C8_Witness ==
    \E p \in Readers :
        /\ Done(p, "history") /\ Succeeded(p)
        /\ loc[p].user_id = "u2"
        /\ Len(store) = 2
        /\ loc[p].vCount = 1

\* the document a successful submitQuery of task p stored
StoredBy(p) ==
    store[CHOOSE i \in 1..Len(store) : store[i].id = loc[p].resp.query_id]

\* C9 as stated: the record is stored under "anonymous" exactly when the
\* request carries no user_id, and under the supplied string otherwise.
C9_AnonymousIffAbsent ==
    \A p \in Writers :
        (Done(p, "query") /\ Succeeded(p))
            => /\ StoredBy(p).user_id = "anonymous"
                    <=> "user_id" \notin DOMAIN loc[p].body
               /\ "user_id" \in DOMAIN loc[p].body
                    => StoredBy(p).user_id = loc[p].body.user_id

\* C9 amended: the record is stored under the supplied user_id when one is
\* supplied and is not the empty string, and under "anonymous" otherwise;
\* getHistory for a user_id returns records stored under that user_id only.
C9_AnonymousIfAbsentOrEmpty ==
    /\ \A p \in Writers :
        (Done(p, "query") /\ Succeeded(p))
            => IF "user_id" \in DOMAIN loc[p].body
               THEN IF loc[p].body.user_id = ""
                    THEN StoredBy(p).user_id = "anonymous"
                    ELSE StoredBy(p).user_id = loc[p].body.user_id
               ELSE StoredBy(p).user_id = "anonymous"
    /\ \A p \in Readers :
        (Done(p, "history") /\ Succeeded(p))
            => \A k \in 1..Len(loc[p].resp.messages) :
                loc[p].resp.messages[k].user_id = loc[p].user_id

C9_Witness ==
    \E p \in Writers :
        /\ Done(p, "query") /\ Succeeded(p)
        /\ "user_id" \in DOMAIN loc[p].body
        /\ loc[p].body.user_id = ""
        /\ StoredBy(p).user_id = "anonymous"

\* C10 as stated: the messages of a getHistory response never outnumber
\* its total, whatever is inserted between its count and its find.
C10_MessagesAtMostTotal ==
    \A p \in Readers :
        (Done(p, "history") /\ Succeeded(p))
            => Len(loc[p].resp.messages) <= loc[p].resp.total

\* C10 amended: the messages of a getHistory response never outnumber its
\* total when no record of that user is inserted between its count and its
\* find.
C10_MessagesAtMostTotalNoWrites ==
    \A p \in Readers :
        (/\ Done(p, "history") /\ Succeeded(p)
         /\ UserDocs(loc[p].vCount, loc[p].user_id)
                = UserDocs(loc[p].vFind, loc[p].user_id))
            => Len(loc[p].resp.messages) <= loc[p].resp.total

C10_Witness ==
    \E p \in Readers :
        /\ Done(p, "history") /\ Succeeded(p)
        /\ loc[p].vCount = 1 /\ loc[p].vFind = 2
        /\ UserDocs(1, loc[p].user_id) = UserDocs(2, loc[p].user_id)
        /\ Len(loc[p].resp.messages) = 1
        /\ loc[p].resp.total = 1

====
